---------------------------- MODULE Spec2Model ----------------------------
(***************************************************************************)
(* Model of src/data_manager.py : class DataManager.                       *)
(*                                                                         *)
(*  - the persistence actor: db_queue, the actor thread _db_thread_func,    *)
(*    save_message and get_messages (lines 74-128);                        *)
(*  - the rule evaluator: SENSOR_ACTIONS and process_sensor_data           *)
(*    (lines 7-72, 80-88, 143-172).                                        *)
(*                                                                         *)
(* Spec      : the persistence actor with its producer and query threads.  *)
(* FairSpec  : Spec with the fairness of the scheduler (every thread that  *)
(*             can take a step eventually takes it).                       *)
(* EvalSpec  : process_sensor_data applied to one (topic, message_data)    *)
(*             input drawn from bounded sets.                              *)
(***************************************************************************)
EXTENDS Integers, Sequences, FiniteSets, TLC

VARIABLES
    db_path,        \* self.db_path (line 75): ":memory:" or a database file
    store,          \* the databases: for each, whether the table messages
                    \* exists and its rows in rowid order
    db_queue,       \* self.db_queue (line 89): FIFO of task tuples
    actor_pc,       \* position of the thread running _db_thread_func
    task,           \* local variable task of _db_thread_func (line 117)
    result_queue,   \* the private Queue() of every get_messages call (line 110)
    call_pc,        \* position of every get_messages call
    returned,       \* value returned by every get_messages call (line 112)
    saves_done,     \* number of save_message calls each producer has made
    enqueued,       \* history: the (topic, payload) of every save_message
                    \* call, in the order of their db_queue.put
    issued_at,      \* history: Len(enqueued) when a get_messages call did its put
    topic_in,       \* argument topic of process_sensor_data
    message_data,   \* argument message_data of process_sensor_data
    eval_pc,        \* "ready" before the call, "returned" after it
    published,      \* the mqtt_client.publish_to calls made by the call, in order
    printed,        \* the lines printed by the call, in order
    sensor_type,    \* argument sensor_type of send_control_message
    command         \* argument command of send_control_message

dbVars   == <<db_path, store, db_queue, actor_pc, task, result_queue, call_pc,
              returned, saves_done, enqueued, issued_at>>
evalVars == <<topic_in, message_data, eval_pc, published, printed,
              sensor_type, command>>
vars     == <<dbVars, evalVars>>

-----------------------------------------------------------------------------
(* Bounds of the model *)

NumProducers == 2       \* threads calling save_message
MaxSaves == 4           \* save_message calls made in all, by any of them
NumCalls == 2           \* get_messages calls, each on a thread of its own

Producers == 1..NumProducers
Calls     == 1..NumCalls

\* every producer saves under a topic of its own
TopicOf(p) == "t" \o ToString(p)

\* the payload of the k-th save_message call of producer p
PayloadOf(p, k) == "payload " \o ToString(p) \o "." \o ToString(k)

-----------------------------------------------------------------------------
(* The store: sqlite3 databases *)

MEMORY == ":memory:"
DBFILE == "greenhouse.db"
DbPaths == {MEMORY, DBFILE}

\* sqlite3.connect(":memory:") opens a new private database on every call;
\* sqlite3.connect(file) opens the one database of that file.
CtorDb(path)  == IF path = MEMORY THEN "memory#ctor" ELSE path
ActorDb(path) == IF path = MEMORY THEN "memory#actor" ELSE path

Databases == {"memory#ctor", "memory#actor", DBFILE}

EmptyDb == [has_table |-> FALSE, rows |-> <<>>]

\* create_tables (lines 95-104), run on self.conn by __init__ (line 77)
create_tables(st, path) ==
    [st EXCEPT ![CtorDb(path)].has_table = TRUE]

\* Insert with the two bound parameters in the wrong order
InsertSwapped(rows, topic, payload) ==
    Append(rows, [id |-> Len(rows) + 1, topic |-> payload, payload |-> topic])

\* Insert that puts the new row in front of the older ones
InsertFront(rows, topic, payload) ==
    <<[id |-> Len(rows) + 1, topic |-> topic, payload |-> payload]>> \o rows

\* INSERT INTO messages (topic, payload) VALUES (?, ?): id is the next rowid
Insert(rows, topic, payload) ==
    Append(rows, [id |-> Len(rows) + 1, topic |-> topic, payload |-> payload])

-----------------------------------------------------------------------------
(* Persistence actor *)

InitDb ==
    /\ db_path \in DbPaths
    /\ store = create_tables([d \in Databases |-> EmptyDb], db_path)
    /\ db_queue = <<>>
    /\ actor_pc = "connect"
    /\ task = <<>>
    /\ result_queue = [c \in Calls |-> <<>>]
    /\ call_pc = [c \in Calls |-> "idle"]
    /\ returned = [c \in Calls |-> <<>>]
    /\ saves_done = [p \in Producers |-> 0]
    /\ enqueued = <<>>
    /\ issued_at = [c \in Calls |-> 0]

\* SaveMessage on a queue of two places: the put waits while the queue is full
SaveMessageBounded(p) ==
    /\ Len(enqueued) < MaxSaves
    /\ Len(db_queue) < 2
    /\ LET topic == TopicOf(p)
           payload == PayloadOf(p, saves_done[p] + 1) IN
        /\ db_queue' = Append(db_queue, <<"save_message", topic, payload>>)
        /\ enqueued' = Append(enqueued, <<topic, payload>>)
    /\ saves_done' = [saves_done EXCEPT ![p] = @ + 1]
    /\ UNCHANGED <<db_path, store, actor_pc, task, result_queue, call_pc,
                   returned, issued_at, evalVars>>

\* save_message (lines 106-107): one put on the unbounded queue
SaveMessage(p) ==
    /\ Len(enqueued) < MaxSaves
    /\ LET topic == TopicOf(p)
           payload == PayloadOf(p, saves_done[p] + 1) IN
        /\ db_queue' = Append(db_queue, <<"save_message", topic, payload>>)
        /\ enqueued' = Append(enqueued, <<topic, payload>>)
    /\ saves_done' = [saves_done EXCEPT ![p] = @ + 1]
    /\ UNCHANGED <<db_path, store, actor_pc, task, result_queue, call_pc,
                   returned, issued_at, evalVars>>

\* get_messages, lines 110-111: a fresh result queue, then the put.
\* The calls are numbered in the order of their puts.
GetMessagesPut(c) ==
    /\ call_pc[c] = "idle"
    /\ \A b \in Calls : b < c => call_pc[b] # "idle"
    /\ result_queue' = [result_queue EXCEPT ![c] = <<>>]
    /\ db_queue' = Append(db_queue, <<"get_messages", c>>)
    /\ call_pc' = [call_pc EXCEPT ![c] = "waiting"]
    /\ issued_at' = [issued_at EXCEPT ![c] = Len(enqueued)]
    /\ UNCHANGED <<db_path, store, actor_pc, task, returned, saves_done,
                   enqueued, evalVars>>

\* get_messages, line 112: result_queue.get() blocks until an item is there
GetMessagesReturn(c) ==
    /\ call_pc[c] = "waiting"
    /\ result_queue[c] # <<>>
    /\ returned' = [returned EXCEPT ![c] = Head(result_queue[c])]
    /\ result_queue' = [result_queue EXCEPT ![c] = Tail(@)]
    /\ call_pc' = [call_pc EXCEPT ![c] = "returned"]
    /\ UNCHANGED <<db_path, store, db_queue, actor_pc, task, saves_done,
                   enqueued, issued_at, evalVars>>

\* _db_thread_func, line 115: the actor opens its own connection
ActorConnect ==
    /\ actor_pc = "connect"
    /\ actor_pc' = "get"
    /\ UNCHANGED <<db_path, store, db_queue, task, result_queue, call_pc,
                   returned, saves_done, enqueued, issued_at, evalVars>>

\* _db_thread_func, line 117: db_queue.get() blocks while the queue is empty
ActorGet ==
    /\ actor_pc = "get"
    /\ db_queue # <<>>
    /\ task' = Head(db_queue)
    /\ db_queue' = Tail(db_queue)
    /\ actor_pc' = "exec"
    /\ UNCHANGED <<db_path, store, result_queue, call_pc, returned,
                   saves_done, enqueued, issued_at, evalVars>>

\* The statements the actor runs on its connection can raise: always when
\* the table is missing in the actor's database (sqlite3.OperationalError),
\* and otherwise whenever the store fails (disk full, database locked, a
\* payload of a type sqlite3 cannot bind, ...).
MayRaise(raises) ==
    ~store[ActorDb(db_path)].has_table => raises

\* ActorSave with the exception caught and the loop continued
ActorSaveCaught(raises) ==
    /\ actor_pc = "exec"
    /\ task[1] = "save_message"
    /\ MayRaise(raises)
    /\ IF raises
       THEN UNCHANGED store
       ELSE store' = [store EXCEPT ![ActorDb(db_path)].rows =
                                     Insert(@, task[2], task[3])]
    /\ actor_pc' = "get"
    /\ UNCHANGED <<db_path, db_queue, task, result_queue, call_pc, returned,
                   saves_done, enqueued, issued_at, evalVars>>

\* _db_thread_func, lines 118-123. Nothing in the loop catches an exception:
\* when the INSERT raises, the exception leaves the while loop and ends the
\* thread.
ActorSave(raises) ==
    /\ actor_pc = "exec"
    /\ task[1] = "save_message"
    /\ MayRaise(raises)
    /\ IF raises
       THEN /\ actor_pc' = "dead"
            /\ UNCHANGED store
       ELSE /\ store' = [store EXCEPT ![ActorDb(db_path)].rows =
                                        Insert(@, task[2], task[3])]
            /\ actor_pc' = "get"
    /\ UNCHANGED <<db_path, db_queue, task, result_queue, call_pc, returned,
                   saves_done, enqueued, issued_at, evalVars>>

\* _db_thread_func, lines 124-128. When the SELECT raises nothing is put on
\* the caller's result queue and the thread ends.
ActorQuery(raises) ==
    /\ actor_pc = "exec"
    /\ task[1] = "get_messages"
    /\ MayRaise(raises)
    /\ IF raises
       THEN /\ actor_pc' = "dead"
            /\ UNCHANGED result_queue
       ELSE /\ result_queue' = [result_queue EXCEPT ![task[2]] =
                                   Append(@, store[ActorDb(db_path)].rows)]
            /\ actor_pc' = "get"
    /\ UNCHANGED <<db_path, store, db_queue, task, call_pc, returned,
                   saves_done, enqueued, issued_at, evalVars>>

-----------------------------------------------------------------------------
(* Rule table: SENSOR_ACTIONS and the sets __init__ derives from it *)

None == "None"      \* Python's None where a topic is expected
NoAction == <<>>    \* Python's None where an action dict is expected

DHT_DATA      == "/RG_7557_GreenHouse/Sensors/DHT/Data"
DHT_CTRL      == "/RG_7557_GreenHouse/Sensors/DHT/Control"
LIGHT_DATA    == "/RG_7557_GreenHouse/Sensors/Light/Data"
LIGHT_CTRL    == "/RG_7557_GreenHouse/Sensors/Light/Control"
MOISTURE_DATA == "/RG_7557_GreenHouse/Sensors/Moisture/Data"
MOISTURE_CTRL == "/RG_7557_GreenHouse/Sensors/Moisture/Control"
FAN_CTRL      == "/RG_7557_GreenHouse/Devices/Fan/Control"
DEHUM_CTRL    == "/RG_7557_GreenHouse/Devices/Dehumidifier/Control"
LAMP_CTRL     == "/RG_7557_GreenHouse/Devices/Light/Control"
IRRIG_CTRL    == "/RG_7557_GreenHouse/Devices/IrrigationSystem/Control"

\* The class attribute SENSOR_ACTIONS: the items of the dict in their
\* order, each a pair <<key, value>>. The thresholds 28.0, 60.0 and 30.0
\* are written 28, 60 and 30.
SENSOR_ACTIONS == <<
    <<"dht",
      [data_topic |-> DHT_DATA, control_topic |-> DHT_CTRL,
       data_keys |-> <<
          [data_key |-> "Temperature", threshold |-> 28,
           above_action |-> [device |-> "fan", state |-> "ON",
                             topic |-> FAN_CTRL],
           below_action |-> NoAction],
          [data_key |-> "Humidity", threshold |-> 60,
           above_action |-> [device |-> "dehumidifier", state |-> "ON",
                             topic |-> DEHUM_CTRL],
           below_action |-> NoAction] >>]>>,
    <<"light",
      [data_topic |-> LIGHT_DATA, control_topic |-> LIGHT_CTRL,
       data_keys |-> <<
          [data_key |-> "Light", threshold |-> 450,
           above_action |-> NoAction,
           below_action |-> [device |-> "light", state |-> "ON",
                             topic |-> LAMP_CTRL]] >>]>>,
    <<"moisture",
      [data_topic |-> MOISTURE_DATA, control_topic |-> MOISTURE_CTRL,
       data_keys |-> <<
          [data_key |-> "Moisture", threshold |-> 30,
           above_action |-> NoAction,
           below_action |-> [device |-> "irrigation_system", state |-> "ON",
                             topic |-> IRRIG_CTRL]] >>]>>,
    <<"device_control_topics",
      [fan |-> FAN_CTRL, dehumidifier |-> DEHUM_CTRL, light |-> LAMP_CTRL,
       irrigation_system |-> IRRIG_CTRL]>>
>>

\* dict.get(key, default)
Get(d, key, default) == IF key \in DOMAIN d THEN d[key] ELSE default

\* truth value of an action: None is false, a dict with entries is true
Truthy(action) == action # NoAction

\* the values of a sequence
Range(seq) == {seq[i] : i \in 1..Len(seq)}

\* self.sensor_control_topics (lines 81-83): the control_topic of every
\* value of SENSOR_ACTIONS, None for the device_control_topics entry
sensor_control_topics ==
    {Get(item[2], "control_topic", None) : item \in Range(SENSOR_ACTIONS)}

\* self.control_topics (lines 80, 84-88): the topics of the actions
control_topics ==
    UNION {
        UNION { (IF Truthy(k.above_action) THEN {k.above_action.topic} ELSE {})
                \cup
                (IF Truthy(k.below_action) THEN {k.below_action.topic} ELSE {})
              : k \in Range(Get(item[2], "data_keys", <<>>)) }
      : item \in Range(SENSOR_ACTIONS) }

-----------------------------------------------------------------------------
(* Rule evaluator: process_sensor_data *)

\* A value of a reading: a number, or a string
Num(n) == [type |-> "number", val |-> n]
Str(t) == [type |-> "str", val |-> t]

\* json.dumps({"device": device, "state": state})
json_dumps(device, state) ==
    "{\"device\": \"" \o device \o "\", \"state\": \"" \o state \o "\"}"

Nothing == [handled |-> FALSE, pubs |-> <<>>, prints |-> <<>>, raised |-> FALSE]

\* SelectAction with >= in place of >
SelectActionGE(data_key_info, v) ==
    IF v >= data_key_info.threshold THEN data_key_info.above_action
    ELSE IF v < data_key_info.threshold THEN data_key_info.below_action
    ELSE NoAction

\* SelectAction with the two actions exchanged
SelectActionSwapped(data_key_info, v) ==
    IF v > data_key_info.threshold THEN data_key_info.below_action
    ELSE IF v < data_key_info.threshold THEN data_key_info.above_action
    ELSE NoAction

\* lines 157-163: the action the comparison with the threshold selects
SelectAction(data_key_info, v) ==
    IF v > data_key_info.threshold THEN data_key_info.above_action
    ELSE IF v < data_key_info.threshold THEN data_key_info.below_action
    ELSE NoAction

\* lines 158-163: the line the comparison prints
ThresholdPrint(sensor_name, data_key_info, v) ==
    IF v > data_key_info.threshold
    THEN <<"Sensor value above threshold for " \o sensor_name>>
    ELSE IF v < data_key_info.threshold
    THEN <<"Sensor value below threshold for " \o sensor_name>>
    ELSE <<>>

\* lines 165-168: the publish of an action
Publish(action) ==
    IF Truthy(action)
    THEN << <<action.topic, json_dumps(action.device, action.state)>> >>
    ELSE <<>>

\* lines 151-168: the body of the inner loop for one data_key_info.
\* message_data.get(key) is None when the key is absent; comparing a str
\* with a number raises TypeError (after sensor_handled was set).
RuleStep(sensor_name, data_key_info, md) ==
    IF data_key_info.data_key \notin DOMAIN md
    THEN Nothing
    ELSE LET sensor_value == md[data_key_info.data_key] IN
         IF sensor_value.type # "number"
         THEN [Nothing EXCEPT !.handled = TRUE, !.raised = TRUE]
         ELSE [handled |-> TRUE,
               pubs |-> Publish(SelectAction(data_key_info, sensor_value.val)),
               prints |-> ThresholdPrint(sensor_name, data_key_info,
                                         sensor_value.val),
               raised |-> FALSE]

\* the effects of a first step followed by the steps after it; an exception
\* in the first step leaves the others out
Then(first, rest) ==
    IF first.raised THEN first
    ELSE [handled |-> first.handled \/ rest.handled,
          pubs |-> first.pubs \o rest.pubs,
          prints |-> first.prints \o rest.prints,
          raised |-> rest.raised]

\* EvalKeys that leaves the loop at the first absent field
RECURSIVE EvalKeysBreak(_, _, _, _)
EvalKeysBreak(sensor_name, data_keys, md, i) ==
    IF i > Len(data_keys) THEN Nothing
    ELSE IF data_keys[i].data_key \notin DOMAIN md THEN Nothing
    ELSE Then(RuleStep(sensor_name, data_keys[i], md),
              EvalKeysBreak(sensor_name, data_keys, md, i + 1))

\* EvalKeys that walks the data_keys from the last to the first
RECURSIVE EvalKeysReverse(_, _, _, _)
EvalKeysReverse(sensor_name, data_keys, md, i) ==
    IF i > Len(data_keys) THEN Nothing
    ELSE Then(EvalKeysReverse(sensor_name, data_keys, md, i + 1),
              RuleStep(sensor_name, data_keys[i], md))

\* lines 150-168: the inner loop over the data_keys, from the i-th on
RECURSIVE EvalKeys(_, _, _, _)
EvalKeys(sensor_name, data_keys, md, i) ==
    IF i > Len(data_keys) THEN Nothing
    ELSE Then(RuleStep(sensor_name, data_keys[i], md),
              EvalKeys(sensor_name, data_keys, md, i + 1))

\* EvalSensors without the test of the topic against data_topic
RECURSIVE EvalSensorsAnyTopic(_, _, _)
EvalSensorsAnyTopic(topic, md, i) ==
    IF i > Len(SENSOR_ACTIONS) THEN Nothing
    ELSE LET sensor_name == SENSOR_ACTIONS[i][1]
             sensor_info == SENSOR_ACTIONS[i][2]
             this == IF sensor_name = "device_control_topics" THEN Nothing
                     ELSE EvalKeys(sensor_name,
                                   Get(sensor_info, "data_keys", <<>>), md, 1)
         IN Then(this, EvalSensorsAnyTopic(topic, md, i + 1))

\* lines 145-168: the outer loop over SENSOR_ACTIONS.items(), from the i-th on
RECURSIVE EvalSensors(_, _, _)
EvalSensors(topic, md, i) ==
    IF i > Len(SENSOR_ACTIONS) THEN Nothing
    ELSE LET sensor_name == SENSOR_ACTIONS[i][1]
             sensor_info == SENSOR_ACTIONS[i][2]
             this == IF sensor_name = "device_control_topics" THEN Nothing
                     ELSE IF Get(sensor_info, "data_topic", None) = topic
                     THEN EvalKeys(sensor_name,
                                   Get(sensor_info, "data_keys", <<>>), md, 1)
                     ELSE Nothing
         IN Then(this, EvalSensors(topic, md, i + 1))

\* lines 170-172: the report of a topic nothing handled
UnknownTopicPrint(topic, handled) ==
    IF ~handled /\ topic \notin sensor_control_topics
    THEN <<"Unknown sensor topic: " \o topic>>
    ELSE <<>>

\* ProcessSensorData that also hands the message to save_message
ProcessSensorDataLogging ==
    /\ eval_pc = "ready"
    /\ \E r \in {EvalSensors(topic_in, message_data, 1)} :
        /\ published' = r.pubs
        /\ printed' = IF r.raised THEN r.prints
                      ELSE r.prints \o UnknownTopicPrint(topic_in, r.handled)
        /\ eval_pc' = IF r.raised THEN "raised" ELSE "returned"
    /\ db_queue' = Append(db_queue, <<"save_message", topic_in, "reading">>)
    /\ UNCHANGED <<topic_in, message_data, sensor_type, command, db_path,
                   store, actor_pc, task, result_queue, call_pc, returned,
                   saves_done, enqueued, issued_at>>

\* process_sensor_data(topic_in, message_data), lines 143-172
\* (r is the one outcome of the two loops)
ProcessSensorData ==
    /\ eval_pc = "ready"
    /\ \E r \in {EvalSensors(topic_in, message_data, 1)} :
        /\ published' = r.pubs
        /\ printed' = IF r.raised THEN r.prints
                      ELSE r.prints \o UnknownTopicPrint(topic_in, r.handled)
        /\ eval_pc' = IF r.raised THEN "raised" ELSE "returned"
    /\ UNCHANGED <<topic_in, message_data, sensor_type, command, dbVars>>

\* the inputs of the rule evaluator
Fields == {"Temperature", "Humidity", "Light", "Moisture"}
Values == {0, 28, 30, 60, 450, 451}
DataTopics == {DHT_DATA, LIGHT_DATA, MOISTURE_DATA}
OTHER_TOPIC == "/RG_7557_GreenHouse/Sensors/Other/Data"
Topics == DataTopics \cup {DHT_CTRL, LIGHT_CTRL, MOISTURE_CTRL}
            \cup {FAN_CTRL, DEHUM_CTRL, LAMP_CTRL, IRRIG_CTRL} \cup {OTHER_TOPIC}

\* readings: every mapping from some of the fields to numbers
Readings ==
    UNION {[K -> {Num(n) : n \in Values}] : K \in SUBSET Fields}

\* no process_sensor_data call: the state while the persistence actor is
\* looked at alone
EvalIdle ==
    /\ topic_in = ""
    /\ message_data = <<>>
    /\ eval_pc = "idle"
    /\ published = <<>>
    /\ printed = <<>>
    /\ sensor_type = ""
    /\ command = ""

InitEval ==
    /\ InitDb
    /\ topic_in \in Topics
    /\ message_data \in Readings
    /\ eval_pc = "ready"
    /\ published = <<>>
    /\ printed = <<>>
    /\ sensor_type = ""
    /\ command = ""

NextEval == ProcessSensorData

EvalSpec == InitEval /\ [][NextEval]_vars

-----------------------------------------------------------------------------
Init == InitDb /\ EvalIdle

Next ==
    \/ \E p \in Producers : SaveMessage(p)
    \/ \E c \in Calls : GetMessagesPut(c)
    \/ \E c \in Calls : GetMessagesReturn(c)
    \/ ActorConnect
    \/ ActorGet
    \/ \E raises \in BOOLEAN : ActorSave(raises)
    \/ \E raises \in BOOLEAN : ActorQuery(raises)

Spec == Init /\ [][Next]_vars

\* Every thread that can take a step eventually takes one.
Fairness ==
    /\ WF_vars(ActorConnect)
    /\ WF_vars(ActorGet)
    /\ WF_vars(\E raises \in BOOLEAN : ActorSave(raises))
    /\ WF_vars(\E raises \in BOOLEAN : ActorQuery(raises))
    /\ \A c \in Calls : WF_vars(GetMessagesReturn(c))

FairSpec == Spec /\ Fairness

-----------------------------------------------------------------------------
(* Claims about the persistence actor *)

\* the (topic, payload) pairs of a list of rows, in order
Pairs(rows) == [i \in 1..Len(rows) |-> <<rows[i].topic, rows[i].payload>>]

\* s occurs in t as a subsequence (same order, not necessarily adjacent)
RECURSIVE IsSubSeq(_, _)
IsSubSeq(s, t) ==
    IF s = <<>> THEN TRUE
    ELSE IF t = <<>> THEN FALSE
    ELSE IF Head(s) = Head(t) THEN IsSubSeq(Tail(s), Tail(t))
    ELSE IsSubSeq(s, Tail(t))

\* the save_message calls that had returned when call c did its put
SavedBefore(c) == SubSeq(enqueued, 1, issued_at[c])

\* the number of those made by producer p
SavesBeforeBy(c, p) ==
    Cardinality({i \in 1..issued_at[c] : enqueued[i][1] = TopicOf(p)})

\* C1: the list a get_messages call returns has a row for every
\* save_message call that returned before the get_messages was issued, and
\* these rows appear in the order in which the calls were enqueued.
C1_SavesBeforeQueryInOrder ==
    \A c \in Calls :
        call_pc[c] = "returned" => IsSubSeq(SavedBefore(c), Pairs(returned[c]))

\* C1 witness: a call has returned that was issued after a save of one
\* producer followed by a save of another one.
C1_Witness ==
    \E c \in Calls :
        /\ call_pc[c] = "returned"
        /\ issued_at[c] >= 2
        /\ enqueued[1][1] # enqueued[2][1]
        /\ Len(returned[c]) >= 2

\* C2: when every producer has made M save_message calls and a get_messages
\* is issued after them, its result has exactly N*M rows, every call's
\* (topic, payload) is carried by exactly one row and every row is the
\* (topic, payload) of one call.
C2_ExactlyNTimesMRows ==
    \A c \in Calls : \A M \in 0..MaxSaves :
        ( /\ call_pc[c] = "returned"
          /\ \A p \in Producers : SavesBeforeBy(c, p) = M )
        =>
        LET rows == Pairs(returned[c]) IN
        /\ Len(rows) = NumProducers * M
        /\ \A p \in Producers : \A k \in 1..M :
              Cardinality({i \in 1..Len(rows) :
                              rows[i] = <<TopicOf(p), PayloadOf(p, k)>>}) = 1
        /\ \A i \in 1..Len(rows) :
              \E p \in Producers : \E k \in 1..M :
                  rows[i] = <<TopicOf(p), PayloadOf(p, k)>>

\* C2 witness: two producers made two calls each, not one producer after
\* the other, and a get_messages issued after the four has returned.
C2_Witness ==
    \E c \in Calls :
        /\ call_pc[c] = "returned"
        /\ issued_at[c] = 4
        /\ \A p \in Producers : SavesBeforeBy(c, p) = 2
        /\ enqueued[1][1] # enqueued[2][1]
        /\ Len(returned[c]) = 4

\* the items delivered so far for call c: those waiting on its result queue
\* and the one it has taken
Delivered(c) ==
    result_queue[c] \o (IF call_pc[c] = "returned" THEN <<returned[c]>> ELSE <<>>)

\* at most one item is ever delivered for a call, none before the call is
\* made, and the item is the scan the actor made for this call: the saves
\* enqueued before this call's own put
OneItemForItsCall ==
    \A c \in Calls :
        /\ Len(Delivered(c)) <= 1
        /\ call_pc[c] = "idle" => Delivered(c) = <<>>
        /\ call_pc[c] = "returned" => Len(Delivered(c)) = 1
        /\ \A i \in 1..Len(Delivered(c)) :
              Pairs(Delivered(c)[i]) = SavedBefore(c)

\* C3: every get_messages call eventually returns, its result queue
\* receives exactly one item, and that item is the one the actor
\* delivered for this call, never the response of another call.
C3_EveryCallReturns ==
    /\ \A c \in Calls : (call_pc[c] = "waiting") ~> (call_pc[c] = "returned")
    /\ []OneItemForItsCall

\* C4: when the INSERT of a save_message task raises, the actor stays in
\* its loop (and so goes on to the requests enqueued after it).
C4_ActorSurvivesInsertFailure ==
    ~(actor_pc = "dead" /\ task[1] = "save_message")

\* C5: when the SELECT of a get_messages task raises, a result (an error)
\* is delivered on the result queue of that call, which releases its
\* caller, and the actor goes on answering the other calls.
C5_QueryFailureDelivered ==
    (actor_pc = "dead" /\ task[1] = "get_messages")
        => (result_queue[task[2]] # <<>> \/ call_pc[task[2]] = "returned")

-----------------------------------------------------------------------------
(* Claims about the rule evaluator *)

\* the sensor definitions of the rule table
SensorDefs ==
    {item[2] : item \in {x \in Range(SENSOR_ACTIONS) :
                            x[1] # "device_control_topics"}}

\* the rules of the sensor definitions whose data topic is topic
RulesOn(topic) ==
    UNION {Range(d.data_keys) : d \in {x \in SensorDefs : x.data_topic = topic}}

\* the payload {device, state} of the four actions, as json.dumps writes it
ExpectedPayload(action) ==
    CASE action.device = "fan" -> "{\"device\": \"fan\", \"state\": \"ON\"}"
      [] action.device = "dehumidifier" ->
            "{\"device\": \"dehumidifier\", \"state\": \"ON\"}"
      [] action.device = "light" -> "{\"device\": \"light\", \"state\": \"ON\"}"
      [] action.device = "irrigation_system" ->
            "{\"device\": \"irrigation_system\", \"state\": \"ON\"}"

\* how many times the call published the action (0 for no action)
Times(action) ==
    IF action = NoAction THEN 0
    ELSE Cardinality({i \in 1..Len(published) :
            published[i] = <<action.topic, ExpectedPayload(action)>>})

\* how many messages the call published to the topic of the action
TimesToTopicOf(action) ==
    IF action = NoAction THEN 0
    ELSE Cardinality({i \in 1..Len(published) : published[i][1] = action.topic})

\* the action a rule emits for the value v: above_action when v > threshold
\* and it is set, below_action when v < threshold and it is set, else none
Expected(rule, v) ==
    IF v > rule.threshold /\ rule.above_action # NoAction THEN rule.above_action
    ELSE IF v < rule.threshold /\ rule.below_action # NoAction
    THEN rule.below_action
    ELSE NoAction

\* 1 when the rule is expected to emit this one of its actions, else 0
Due(rule, v, action) ==
    IF action # NoAction /\ Expected(rule, v) = action THEN 1 ELSE 0

\* the call printed the unknown-topic report
UnknownReported ==
    \E i \in 1..Len(printed) : printed[i] = "Unknown sensor topic: " \o topic_in

\* C6: a reading whose value for a rule's field equals the rule's threshold
\* publishes nothing for that rule, neither above_action nor below_action.
C6_EqualityFiresNothing ==
    eval_pc = "returned" =>
        \A rule \in RulesOn(topic_in) :
            ( /\ rule.data_key \in DOMAIN message_data
              /\ message_data[rule.data_key].val = rule.threshold )
            => /\ TimesToTopicOf(rule.above_action) = 0
               /\ TimesToTopicOf(rule.below_action) = 0

\* C6 witness: a dht reading with Temperature at its threshold 28 and
\* Humidity above its own; only the Humidity rule has published.
C6_Witness ==
    /\ eval_pc = "returned"
    /\ topic_in = DHT_DATA
    /\ DOMAIN message_data = {"Temperature", "Humidity"}
    /\ message_data["Temperature"] = Num(28)
    /\ message_data["Humidity"] = Num(450)
    /\ Len(published) = 1
    /\ published[1][1] = DEHUM_CTRL

\* C7: for every rule whose field is present with value v, the call
\* publishes exactly the above_action when v > threshold and it is set,
\* exactly the below_action when v < threshold and it is set, and nothing
\* otherwise; each to the action's topic, as {device, state}.
C7_StrictThresholdActions ==
    eval_pc = "returned" =>
        \A rule \in RulesOn(topic_in) :
            rule.data_key \in DOMAIN message_data =>
                LET v == message_data[rule.data_key].val IN
                /\ Times(rule.above_action) = Due(rule, v, rule.above_action)
                /\ Times(rule.below_action) = Due(rule, v, rule.below_action)
                /\ TimesToTopicOf(rule.above_action) = Times(rule.above_action)
                /\ TimesToTopicOf(rule.below_action) = Times(rule.below_action)

\* C7 witness: Temperature 30 on the dht data topic has published exactly
\* the fan action.
C7_Witness ==
    /\ eval_pc = "returned"
    /\ topic_in = DHT_DATA
    /\ DOMAIN message_data = {"Temperature"}
    /\ message_data["Temperature"] = Num(30)
    /\ published = << <<FAN_CTRL, "{\"device\": \"fan\", \"state\": \"ON\"}">> >>

\* C8: with a reading that holds only some of the declared fields, the call
\* completes without error, the rules whose field is absent publish
\* nothing, and the rules whose field is present are evaluated.
C8_SubsetOfFields ==
    eval_pc # "ready" =>
        /\ eval_pc = "returned"
        /\ \A rule \in RulesOn(topic_in) :
              IF rule.data_key \in DOMAIN message_data
              THEN LET e == Expected(rule, message_data[rule.data_key].val) IN
                   e # NoAction => TimesToTopicOf(e) = 1
              ELSE /\ TimesToTopicOf(rule.above_action) = 0
                   /\ TimesToTopicOf(rule.below_action) = 0

\* C8 witness: a dht reading with Humidity only, above its threshold: the
\* call has returned and published the dehumidifier action alone.
C8_Witness ==
    /\ eval_pc = "returned"
    /\ topic_in = DHT_DATA
    /\ DOMAIN message_data = {"Humidity"}
    /\ message_data["Humidity"] = Num(450)
    /\ Len(published) = 1
    /\ published[1][1] = DEHUM_CTRL

\* the registered control topics: the control_topic of every sensor
\* definition and the topic of every above_action and below_action
RegisteredControlTopics ==
    {d.control_topic : d \in SensorDefs} \cup control_topics

\* C9: a call with a registered control topic never reports the unknown
\* topic condition and publishes nothing.
C9_ControlTopicsSilent ==
    (eval_pc = "returned" /\ topic_in \in RegisteredControlTopics)
        => (~UnknownReported /\ published = <<>>)

\* C10: a message arriving on a registered data topic never produces the
\* unknown topic report, whatever fields its reading contains.
C10_DataTopicNeverUnknown ==
    (eval_pc = "returned" /\ topic_in \in {d.data_topic : d \in SensorDefs})
        => ~UnknownReported

-----------------------------------------------------------------------------
(* Control commands: send_control_message *)

NoInfo == <<>>      \* Python's None where a sensor_info dict is expected

\* SENSOR_ACTIONS.get(sensor_type), line 131
Lookup(st) ==
    LET hits == {i \in 1..Len(SENSOR_ACTIONS) : SENSOR_ACTIONS[i][1] = st}
    IN IF hits = {} THEN NoInfo
       ELSE SENSOR_ACTIONS[CHOOSE i \in hits : TRUE][2]

\* json.dumps({"sensor": sensor_type, "command": command}), line 140
json_dumps_command(st, cmd) ==
    "{\"sensor\": \"" \o st \o "\", \"command\": \"" \o cmd \o "\"}"

\* SendControlEffect that takes the topic from device_control_topics when
\* the name is also the name of a device
SendControlEffectDevice(st, cmd) ==
    LET devices == Lookup("device_control_topics")
        sensor_info == Lookup(st)
    IN IF sensor_info = NoInfo
       THEN [pubs |-> <<>>,
             prints |-> <<"Error: No information defined for sensor type '"
                           \o st \o "'">>]
       ELSE LET topic == IF st \in DOMAIN devices THEN devices[st]
                         ELSE Get(sensor_info, "control_topic", None)
            IN IF topic = None
               THEN [pubs |-> <<>>,
                     prints |-> <<"Error: No control topic defined for sensor type '"
                                   \o st \o "'">>]
               ELSE [pubs |-> << <<topic, json_dumps_command(st, cmd)>> >>,
                     prints |-> <<>>]

\* send_control_message, lines 130-141: what it publishes and prints
SendControlEffect(st, cmd) ==
    LET sensor_info == Lookup(st)
    IN IF sensor_info = NoInfo
       THEN [pubs |-> <<>>,
             prints |-> <<"Error: No information defined for sensor type '"
                           \o st \o "'">>]
       ELSE LET topic == Get(sensor_info, "control_topic", None)
            IN IF topic = None
               THEN [pubs |-> <<>>,
                     prints |-> <<"Error: No control topic defined for sensor type '"
                                   \o st \o "'">>]
               ELSE [pubs |-> << <<topic, json_dumps_command(st, cmd)>> >>,
                     prints |-> <<>>]

\* send_control_message(sensor_type, command), lines 130-141
SendControlMessage ==
    /\ eval_pc = "ready"
    /\ LET r == SendControlEffect(sensor_type, command) IN
        /\ published' = r.pubs
        /\ printed' = r.prints
    /\ eval_pc' = "returned"
    /\ UNCHANGED <<topic_in, message_data, sensor_type, command, dbVars>>

\* the inputs of send_control_message: the keys of SENSOR_ACTIONS, the names
\* of the devices and a name that is neither
SensorTypes == {"dht", "light", "moisture", "device_control_topics",
                "fan", "dehumidifier", "irrigation_system", "unknown_sensor"}
Commands == {"ON", "OFF", "RESET", ""}

InitCtrl ==
    /\ InitDb
    /\ topic_in = ""
    /\ message_data = <<>>
    /\ eval_pc = "ready"
    /\ published = <<>>
    /\ printed = <<>>
    /\ sensor_type \in SensorTypes
    /\ command \in Commands

NextCtrl == SendControlMessage

CtrlSpec == InitCtrl /\ [][NextCtrl]_vars

\* the sensor kinds with a control topic, and that topic
SensorControlTopic ==
    [dht |-> DHT_CTRL, light |-> LIGHT_CTRL, moisture |-> MOISTURE_CTRL]

\* the error lines of send_control_message
ControlErrors ==
    {"Error: No information defined for sensor type '" \o sensor_type \o "'",
     "Error: No control topic defined for sensor type '" \o sensor_type \o "'"}

\* C11: send_control_message publishes exactly one message {sensor, command}
\* to the sensor definition's own control topic, which is no actuator
\* control topic, when sensor_type is a sensor kind with a control topic;
\* for every other sensor_type it publishes nothing and reports an error.
C11_ControlCommandRouting ==
    eval_pc = "returned" =>
        IF sensor_type \in DOMAIN SensorControlTopic
        THEN /\ published = << <<SensorControlTopic[sensor_type],
                                 "{\"sensor\": \"" \o sensor_type
                                   \o "\", \"command\": \"" \o command
                                   \o "\"}">> >>
             /\ published[1][1] \notin
                   {FAN_CTRL, DEHUM_CTRL, LAMP_CTRL, IRRIG_CTRL}
             /\ printed = <<>>
        ELSE /\ published = <<>>
             /\ Len(printed) = 1
             /\ printed[1] \in ControlErrors

\* C11 witness: send_control_message("light", "OFF") has published the
\* command to the control topic of the light sensor.
C11_Witness ==
    /\ eval_pc = "returned"
    /\ sensor_type = "light"
    /\ command = "OFF"
    /\ published = << <<LIGHT_CTRL,
                        "{\"sensor\": \"light\", \"command\": \"OFF\"}">> >>

-----------------------------------------------------------------------------
(* process_sensor_data on readings whose values need not be numbers *)

\* a declared field may carry a string, as in {"Temperature": "abc"}
MixedValues == {Num(0), Num(30), Num(451), Str("abc")}

MixedReadings == UNION {[K -> MixedValues] : K \in SUBSET Fields}

InitMixed ==
    /\ InitDb
    /\ topic_in \in Topics
    /\ message_data \in MixedReadings
    /\ eval_pc = "ready"
    /\ published = <<>>
    /\ printed = <<>>
    /\ sensor_type = ""
    /\ command = ""

MixedSpec == InitMixed /\ [][NextEval]_vars

\* C12: for every reading, a malformed one included, process_sensor_data
\* handles the problem locally and returns normally without raising.
C12_NeverRaises ==
    eval_pc # "raised"

-----------------------------------------------------------------------------
(* An inbound message handled while the persistence actor runs *)

\* the inbound message: one that triggers an action, one that triggers
\* none, on a data topic or on a topic of no sensor
SysTopics == {DHT_DATA, OTHER_TOPIC}
SysReadings == {[Temperature |-> Num(30)], [Temperature |-> Num(28)]}

InitSys ==
    /\ InitDb
    /\ topic_in \in SysTopics
    /\ message_data \in SysReadings
    /\ eval_pc = "ready"
    /\ published = <<>>
    /\ printed = <<>>
    /\ sensor_type = ""
    /\ command = ""

\* process_sensor_data at any moment of the persistence actor's run; one
\* thread makes the save_message calls
NextSys ==
    \/ ProcessSensorData
    \/ SaveMessage(1)
    \/ \E c \in Calls : GetMessagesPut(c)
    \/ \E c \in Calls : GetMessagesReturn(c)
    \/ ActorConnect
    \/ ActorGet
    \/ \E raises \in BOOLEAN : ActorSave(raises)
    \/ \E raises \in BOOLEAN : ActorQuery(raises)

SysSpec == InitSys /\ [][NextSys]_vars

\* a get_messages call made after process_sensor_data has returned
SubsequentGetMessagesPut(c) ==
    /\ eval_pc = "returned"
    /\ GetMessagesPut(c)

\* process_sensor_data first, the get_messages calls after it
NextLog ==
    \/ ProcessSensorData
    \/ \E p \in Producers : SaveMessage(p)
    \/ \E c \in Calls : SubsequentGetMessagesPut(c)
    \/ \E c \in Calls : GetMessagesReturn(c)
    \/ ActorConnect
    \/ ActorGet
    \/ \E raises \in BOOLEAN : ActorSave(raises)
    \/ \E raises \in BOOLEAN : ActorQuery(raises)

LogSpec == InitSys /\ [][NextLog]_vars

\* C13: the message handled by process_sensor_data is also appended to the
\* persistence actor: the result of a subsequent get_messages contains a
\* record for it, whether or not an action was published.
C13_InboundMessageLogged ==
    \A c \in Calls :
        call_pc[c] = "returned" =>
            \E i \in 1..Len(returned[c]) : returned[c][i].topic = topic_in

\* C16: process_sensor_data publishes and returns in every state of the
\* persistence actor, and neither enqueues to nor waits on the persistence
\* queue; save_message, get_messages and the actor never publish.
C16_Decoupled ==
    /\ [](eval_pc = "ready" => ENABLED ProcessSensorData)
    /\ [][eval_pc' # eval_pc => UNCHANGED dbVars]_vars
    /\ [][dbVars' # dbVars => UNCHANGED <<published, printed, eval_pc>>]_vars

\* C16 witness: process_sensor_data has published and returned while the
\* actor has stopped on a store failure with requests still in the queue.
C16_Witness ==
    /\ eval_pc = "returned"
    /\ published # <<>>
    /\ actor_pc = "dead"
    /\ Len(db_queue) >= 2
    /\ \E c \in Calls : call_pc[c] = "waiting"

-----------------------------------------------------------------------------
(* Claims about the connections, the queue and the snapshots *)

\* The sqlite3 connections that are open, each with the thread that opened
\* it and the database it is on. __init__ opens self.conn in the
\* constructing thread (line 76), runs create_tables on it (line 77) and
\* never closes it; _db_thread_func opens conn (line 115), a local that
\* goes away with the thread.
connections ==
    {[thread |-> "constructor", db |-> CtorDb(db_path)]}
    \cup (IF actor_pc \in {"get", "exec"}
          THEN {[thread |-> "actor", db |-> ActorDb(db_path)]}
          ELSE {})

\* C14: no connection to the store is opened or held by a thread other than
\* the actor thread.
C14_OnlyActorHoldsConnection ==
    \A k \in connections : k.thread = "actor"

\* C15: save_message can take its one enqueue step in every state, whatever
\* the number of pending requests and whether the actor has not started,
\* is busy or has stopped.
C15_SaveNeverBlocks ==
    \A p \in Producers :
        Len(enqueued) < MaxSaves => ENABLED SaveMessage(p)

\* C15 witness: the actor has stopped, three or more requests are pending,
\* the last of them a save_message, and a further save_message can be made.
C15_Witness ==
    /\ actor_pc = "dead"
    /\ Len(db_queue) >= 3
    /\ db_queue[Len(db_queue)][1] = "save_message"
    /\ Len(enqueued) < MaxSaves

\* C17: the actions of the rules of one sensor definition that a reading
\* triggers are published one per triggered rule, in the order in which the
\* rules are declared. (A reading is a mapping: it has no key order.)
C17_RuleDeclarationOrder ==
    eval_pc = "returned" =>
        \A d \in {x \in SensorDefs : x.data_topic = topic_in} :
            LET keys == d.data_keys
                Fired(i) ==
                    /\ keys[i].data_key \in DOMAIN message_data
                    /\ Expected(keys[i],
                                message_data[keys[i].data_key].val) # NoAction
                Msg(i) ==
                    LET e == Expected(keys[i],
                                      message_data[keys[i].data_key].val)
                    IN <<e.topic, ExpectedPayload(e)>>
            IN /\ Len(published) =
                      Cardinality({i \in 1..Len(keys) : Fired(i)})
               /\ \A i, j \in 1..Len(keys) :
                      (i < j /\ Fired(i) /\ Fired(j)) =>
                          \E a, b \in 1..Len(published) :
                              /\ a < b
                              /\ published[a] = Msg(i)
                              /\ published[b] = Msg(j)

\* C17 witness: a dht reading with Temperature 30 and Humidity 450 has
\* published the fan command and then the dehumidifier command.
C17_Witness ==
    /\ eval_pc = "returned"
    /\ topic_in = DHT_DATA
    /\ "Temperature" \in DOMAIN message_data
    /\ "Humidity" \in DOMAIN message_data
    /\ message_data["Temperature"] = Num(30)
    /\ message_data["Humidity"] = Num(450)
    /\ Len(published) = 2
    /\ published[1][1] = FAN_CTRL
    /\ published[2][1] = DEHUM_CTRL

\* C18: a call with a topic that is not the data_topic of any sensor
\* definition publishes nothing, whatever the reading holds.
C18_OtherTopicPublishesNothing ==
    (eval_pc = "returned" /\ topic_in \notin {d.data_topic : d \in SensorDefs})
        => published = <<>>

\* C18 witness: Temperature 30 on a topic no sensor definition has: the call
\* has returned and published nothing.
C18_Witness ==
    /\ eval_pc = "returned"
    /\ topic_in = OTHER_TOPIC
    /\ "Temperature" \in DOMAIN message_data
    /\ message_data["Temperature"] = Num(30)
    /\ published = <<>>

\* C19: with every db_path the actor executes its INSERT or SELECT on the
\* database in which the constructor created the messages table.
C19_ActorStoreHasTable ==
    actor_pc = "exec" =>
        /\ ActorDb(db_path) = CtorDb(db_path)
        /\ store[ActorDb(db_path)].has_table

\* s is a prefix of t
IsPrefix(s, t) == Len(s) <= Len(t) /\ SubSeq(t, 1, Len(s)) = s

\* C20: of two get_messages results the one of the earlier call is a prefix
\* of the one of the later call, and no result holds a record whose
\* save_message was enqueued after the get_messages request.
C20_MonotoneSnapshots ==
    /\ \A b, c \in Calls :
          (b < c /\ call_pc[b] = "returned" /\ call_pc[c] = "returned")
              => IsPrefix(returned[b], returned[c])
    /\ \A c \in Calls :
          call_pc[c] = "returned" =>
              \A i \in 1..Len(returned[c]) :
                  \E j \in 1..issued_at[c] :
                      enqueued[j] = Pairs(returned[c])[i]

\* C20 witness: two calls have returned, the first with a row, the second
\* with more rows, and a save_message was enqueued after the second request.
C20_Witness ==
    /\ \A c \in {1, 2} : call_pc[c] = "returned"
    /\ Len(returned[1]) >= 1
    /\ Len(returned[2]) > Len(returned[1])
    /\ Len(enqueued) > issued_at[2]

=============================================================================
